---------------------------- MODULE Spec2Model ----------------------------
(***************************************************************************)
(* A model of datasapling's DataGenerator (src/src/main.py): construction  *)
(* from a YAML configuration file, and generate(), which walks the         *)
(* `datasets` mapping, builds one table per dataset and writes it to disk. *)
(*                                                                         *)
(* Python values are modelled as follows.                                  *)
(*   dict        a function whose DOMAIN is the set of keys present        *)
(*   ordered dict of datasets / of columns                                 *)
(*               a sequence of items, resp. a record [columns, data]       *)
(*   None        the distinguished value NoneValue                         *)
(*   str paths   sequences of path tokens, "/" being a token of its own    *)
(*   generated values                                                      *)
(*               the name of the producer that made them ("uuid4",         *)
(*               "name", "datetime", ...): the random content is abstracted*)
(***************************************************************************)
EXTENDS Integers, Sequences, FiniteSets, TLC

VARIABLES
  config_file,      \* the file at config_path: absent, or its parsed document
  pc,               \* "new", "constructed", "build", "write", "done",
                    \* "init_raised", "raised"
  exc,              \* the exception that left __init__ or generate, or "none"
  config,           \* self.config
  global_metadata,  \* self.global_metadata
  global_output,    \* self.global_output
  i,                \* position of the current dataset in datasets.items()
  num_rows,         \* generate's local num_rows for the current dataset
  metadata_config,  \* generate's local metadata_config
  output_config,    \* generate's local output_config
  df,               \* generate's local df, the table built for the dataset
  meta_assigned,    \* history: column names assigned by lines 38-41 for df
  attempted,        \* history: dataset names whose loop body has started
  dirs,             \* directories created by os.makedirs
  files,            \* files written by to_csv: records [path, by, content]
  log,              \* lines printed
  mpc,              \* _merge_configs called on its own: "idle", "call", "returned"
  m_args,           \* ... the contents of its two arguments when called
  m_after           \* ... the result and the two arguments' contents on return

vars == <<config_file, pc, exc, config, global_metadata, global_output, i,
          num_rows, metadata_config, output_config, df, meta_assigned,
          attempted, dirs, files, log, mpc, m_args, m_after>>

genVars == <<config_file, pc, exc, config, global_metadata, global_output, i,
             num_rows, metadata_config, output_config, df, meta_assigned,
             attempted, dirs, files, log>>

mergeVars == <<mpc, m_args, m_after>>

----------------------------------------------------------------------------
(* Bounds of the model.                                                    *)

MaxRows == 2

----------------------------------------------------------------------------
(* Python values.                                                          *)

EmptyDict == [k \in {} |-> 0]

NoneValue == [py_none |-> TRUE]

IsNone(v) == v = NoneValue

\* dict.get(key, default)
Get(d, key, default) == IF key \in DOMAIN d THEN d[key] ELSE default

SeqRange(s) == {s[n] : n \in 1..Len(s)}

\* range(n): empty when n <= 0
PyRange(n) == 1..n

----------------------------------------------------------------------------
(* Program constants of generate().                                        *)

DefaultRows == 100

HeadRows == 10

DefaultDirectory == <<"output", "/">>

DefaultFormat == "csv"

\* The attributes of Faker that the configurations below look up; every
\* other name makes getattr raise AttributeError.
FakerMethods == {"uuid4", "name", "email"}

----------------------------------------------------------------------------
(* _merge_configs: the state of the three objects after the call.          *)

\* dict.copy()
DictCopy(d) == [k \in DOMAIN d |-> d[k]]

\* dict.update(other), as the new contents of the updated dict
DictUpdate(d, other) ==
  [k \in DOMAIN d \cup DOMAIN other |->
     IF k \in DOMAIN other THEN other[k] ELSE d[k]]

\* Mutant: the override direction swapped (global wins).
MergeConfigsGlobalWins(global_cfg, dataset_cfg) ==
  [merged_config  |-> DictUpdate(DictCopy(dataset_cfg), global_cfg),
   global_config  |-> global_cfg,
   dataset_config |-> dataset_cfg]

\* Mutant: no copy, merged_config aliases global_config, so the update
\* lands in the caller's global dict.
MergeConfigsNoCopy(global_cfg, dataset_cfg) ==
  [merged_config  |-> DictUpdate(global_cfg, dataset_cfg),
   global_config  |-> DictUpdate(global_cfg, dataset_cfg),
   dataset_config |-> dataset_cfg]

MergeConfigs(global_cfg, dataset_cfg) ==
  [merged_config  |-> DictUpdate(DictCopy(global_cfg), dataset_cfg),
   global_config  |-> global_cfg,
   dataset_config |-> dataset_cfg]


----------------------------------------------------------------------------
(* The table under construction: generate's `data` dict, in key order.     *)

EmptyTable == [columns |-> <<>>, data |-> EmptyDict]

\* Mutant: a re-assigned key moves to the end of the dict.
DictSetMoveToEnd(table, name, column) ==
  [columns |-> Append(SelectSeq(table.columns, LAMBDA c : c # name), name),
   data    |-> [c \in DOMAIN table.data \cup {name} |->
                  IF c = name THEN column ELSE table.data[c]]]

\* data[name] = column: a new key is appended, an existing key keeps its
\* place and gets the new value.
DictSet(table, name, column) ==
  [columns |-> IF name \in SeqRange(table.columns)
               THEN table.columns
               ELSE Append(table.columns, name),
   data    |-> [c \in DOMAIN table.data \cup {name} |->
                  IF c = name THEN column ELSE table.data[c]]]

\* Mutant: one call too many.
FieldColumnOffByOne(faker_method_name, rows) ==
  [r \in PyRange(rows + 1) |-> faker_method_name]

\* [faker_method() for _ in range(num_rows)]
FieldColumn(faker_method_name, rows) ==
  [r \in PyRange(rows) |-> faker_method_name]

\* [datetime.now() for _ in range(num_rows)]
TimestampColumn(rows) == [r \in PyRange(rows) |-> "datetime"]

\* [self.fake.name() for _ in range(num_rows)]
NameColumn(rows) == [r \in PyRange(rows) |-> "name"]

\* Lines 30-34: the declared fields, in order. getattr raises at the first
\* field whose type is no attribute of Faker; what was built is dropped.
RECURSIVE BuildFields(_, _, _)
BuildFields(fields, rows, table) ==
  IF fields = <<>> THEN [ok |-> TRUE, table |-> table]
  ELSE LET field == Head(fields)
           field_name == field["name"]
           faker_method_name == field["type"]
       IN  IF faker_method_name \notin FakerMethods
           THEN [ok |-> FALSE, table |-> table]
           ELSE BuildFields(Tail(fields), rows,
                  DictSet(table, field_name,
                          FieldColumn(faker_method_name, rows)))

\* Mutant: enable defaults to True.
MetadataEnabledByDefault(meta_cfg) == Get(meta_cfg, "enable", TRUE)

\* metadata_config.get('enable', False)
MetadataEnabled(meta_cfg) == Get(meta_cfg, "enable", FALSE)

\* Lines 37-41: the requested metadata fields, in order. The result carries
\* the table and the names these lines assigned.
RECURSIVE BuildMetadata(_, _, _, _)
BuildMetadata(metadata_fields, rows, table, assigned) ==
  IF metadata_fields = <<>> THEN [table |-> table, assigned |-> assigned]
  ELSE LET metadata_field == Head(metadata_fields)
       IN  IF metadata_field = "created_at" \/ metadata_field = "modified_at"
           THEN BuildMetadata(Tail(metadata_fields), rows,
                  DictSet(table, metadata_field, TimestampColumn(rows)),
                  Append(assigned, metadata_field))
           ELSE IF metadata_field = "created_by" \/ metadata_field = "modified_by"
           THEN BuildMetadata(Tail(metadata_fields), rows,
                  DictSet(table, metadata_field, NameColumn(rows)),
                  Append(assigned, metadata_field))
           ELSE BuildMetadata(Tail(metadata_fields), rows, table, assigned)

\* Lines 24-43 for one dataset, given the merged metadata config.
BuildTable(dataset_config, meta_cfg) ==
  LET rows   == Get(dataset_config, "rows", DefaultRows)
      fields == BuildFields(Get(dataset_config, "fields", <<>>), rows, EmptyTable)
  IN  IF ~fields.ok
      THEN [ok |-> FALSE, table |-> EmptyTable, assigned |-> <<>>]
      ELSE IF MetadataEnabled(meta_cfg)
      THEN LET meta == BuildMetadata(Get(meta_cfg, "fields", <<>>), rows,
                                     fields.table, <<>>)
           IN  [ok |-> TRUE, table |-> meta.table, assigned |-> meta.assigned]
      ELSE [ok |-> TRUE, table |-> fields.table, assigned |-> <<>>]

----------------------------------------------------------------------------
(* Output: the path and the delimiter-separated file.                      *)

\* Mutant: the default directory is the working directory.
OutputDirectoryCwd(out_cfg) == Get(out_cfg, "directory", <<".", "/">>)

\* output_config.get('directory', 'output/')
OutputDirectory(out_cfg) == Get(out_cfg, "directory", DefaultDirectory)

\* output_config.get('format', 'csv')
OutputFormat(out_cfg) == Get(out_cfg, "format", DefaultFormat)

\* os.path.join(a, b) for a relative b: a separator is inserted unless a is
\* empty or already ends with one.
PathJoin(a, b) ==
  IF a = <<>> THEN b
  ELSE IF a[Len(a)] = "/" THEN a \o b
  ELSE a \o <<"/">> \o b

\* os.path.join(output_directory, f"{dataset_name}.{output_format}")
OutputFile(dataset_name, out_cfg) ==
  PathJoin(OutputDirectory(out_cfg),
           <<dataset_name, ".", OutputFormat(out_cfg)>>)

\* len(df): the common length of the columns, 0 for a table with no column.
TableLen(table) ==
  IF table.columns = <<>> THEN 0 ELSE Len(table.data[table.columns[1]])

\* df.to_csv(path, sep=sep, index=False): a header row of the column names
\* and one row per table row, cells in column order.
ToCsv(table, sep) ==
  [sep    |-> sep,
   header |-> table.columns,
   rows   |-> [r \in 1..TableLen(table) |->
                [c \in 1..Len(table.columns) |-> table.data[table.columns[c]][r]]]]

\* Mutant: any format other than tsv is written as comma-separated text.
WriteModeCsvFallback(output_format) ==
  IF output_format = "tsv" THEN "tsv" ELSE "csv"

\* Lines 53-58: the branch taken for a format.
WriteMode(output_format) ==
  IF output_format = "csv" THEN "csv"
  ELSE IF output_format = "tsv" THEN "tsv"
  ELSE "unsupported"

Min(a, b) == IF a < b THEN a ELSE b

----------------------------------------------------------------------------
(* The configuration files the model runs on. A key that a choice leaves   *)
(* out is absent from the YAML mapping. A key written with no value, like  *)
(* a file with no content, parses to None.                                 *)

DatasetNames == <<"users", "orders">>

Field(field_name, field_type) == [name |-> field_name, type |-> field_type]

RowsChoices == {EmptyDict} \cup {[rows |-> n] : n \in 1..MaxRows}

FieldsChoices ==
  { EmptyDict,
    [fields |-> <<Field("id", "uuid4"), Field("created_by", "email")>>],
    [fields |-> <<Field("id", "uuid4"), Field("phone", "no_such_provider")>>] }

DatasetMetadataChoices ==
  { EmptyDict,
    [metadata |-> [enable |-> FALSE]],
    [metadata |-> [enable |-> TRUE]] }

DatasetOutputChoices ==
  { EmptyDict,
    [output |-> [format |-> "json"]],
    [output |-> [directory |-> <<"exports">>]] }

DatasetSpecs ==
  { r @@ f @@ m @@ o : r \in RowsChoices, f \in FieldsChoices,
                       m \in DatasetMetadataChoices, o \in DatasetOutputChoices }
  \cup {NoneValue}

GlobalMetadataChoices ==
  { EmptyDict,
    [metadata |-> [enable |-> TRUE, fields |-> <<"created_at", "created_by">>]],
    [metadata |-> [fields |-> <<"modified_at", "bogus", "created_by">>]] }

GlobalOutputChoices ==
  { EmptyDict,
    [output |-> [directory |-> <<"data">>, format |-> "tsv"]] }

GlobalChoices ==
  { EmptyDict, [global |-> NoneValue] }
  \cup { [global |-> m @@ o] : m \in GlobalMetadataChoices, o \in GlobalOutputChoices }

\* The `datasets` mapping as its items(), in declaration order.
DatasetsOfLen(n) ==
  { [k \in 1..n |-> [name |-> DatasetNames[k], spec |-> specs[k]]] :
      specs \in [1..n -> DatasetSpecs] }

DatasetsChoices ==
  {EmptyDict} \cup
  { [datasets |-> d] : d \in UNION {DatasetsOfLen(n) : n \in 0..Len(DatasetNames)} }

Documents == {NoneValue} \cup { g @@ d : g \in GlobalChoices, d \in DatasetsChoices }

ConfigFiles ==
  { [exists |-> FALSE, doc |-> NoneValue] }
  \cup { [exists |-> TRUE, doc |-> d] : d \in Documents }

----------------------------------------------------------------------------
(* DataGenerator.__init__ and _load_config.                                *)

\* _load_config: {} for a path that does not exist, else yaml.safe_load.
LoadConfig(file) == IF ~file.exists THEN EmptyDict ELSE file.doc

\* A .get on None raises AttributeError (line 12 on self.config, line 13 on
\* global_config).
ConstructRaises(file) ==
  \/ IsNone(LoadConfig(file))
  \/ IsNone(Get(LoadConfig(file), "global", EmptyDict))

Construct ==
  /\ pc = "new"
  /\ ~ConstructRaises(config_file)
  /\ LET global_config == Get(LoadConfig(config_file), "global", EmptyDict)
     IN  /\ config' = LoadConfig(config_file)
         /\ global_metadata' = Get(global_config, "metadata", EmptyDict)
         /\ global_output' = Get(global_config, "output", EmptyDict)
  /\ pc' = "constructed"
  /\ UNCHANGED <<config_file, exc, i, num_rows, metadata_config, output_config,
                 df, meta_assigned, attempted, dirs, files, log>>
  /\ UNCHANGED mergeVars

ConstructFails ==
  /\ pc = "new"
  /\ ConstructRaises(config_file)
  /\ config' = LoadConfig(config_file)
  /\ pc' = "init_raised"
  /\ exc' = "AttributeError"
  /\ UNCHANGED <<config_file, global_metadata, global_output, i, num_rows,
                 metadata_config, output_config, df, meta_assigned, attempted,
                 dirs, files, log>>
  /\ UNCHANGED mergeVars

----------------------------------------------------------------------------
(* DataGenerator.generate.                                                 *)

\* self.config.get('datasets', {}).items()
Items(cfg) == Get(cfg, "datasets", <<>>)

\* Line 23: generate is called; the loop starts at the first item.
Generate ==
  /\ pc = "constructed"
  /\ pc' = "build"
  /\ i' = 1
  /\ UNCHANGED <<config_file, exc, config, global_metadata, global_output,
                 num_rows, metadata_config, output_config, df, meta_assigned,
                 attempted, dirs, files, log>>
  /\ UNCHANGED mergeVars

\* Lines 24-45 for the dataset at position i, when no line raises: the two
\* merges, the field columns, the metadata columns, the frame, the prints.
BuildDataset ==
  /\ pc = "build"
  /\ i <= Len(Items(config))
  /\ LET dataset_name   == Items(config)[i].name
         dataset_config == Items(config)[i].spec
     IN  /\ ~IsNone(dataset_config)
         /\ LET meta  == MergeConfigs(global_metadata,
                                      Get(dataset_config, "metadata", EmptyDict))
                out   == MergeConfigs(global_output,
                                      Get(dataset_config, "output", EmptyDict))
                built == BuildTable(dataset_config, meta.merged_config)
                rows  == Get(dataset_config, "rows", DefaultRows)
            IN  /\ built.ok
                /\ num_rows' = rows
                /\ global_metadata' = meta.global_config
                /\ global_output' = out.global_config
                /\ metadata_config' = meta.merged_config
                /\ output_config' = out.merged_config
                /\ df' = built.table
                /\ meta_assigned' = built.assigned
                /\ log' = log \o
                     << [msg |-> "generated", rows |-> rows, name |-> dataset_name],
                        [msg |-> "head", columns |-> built.table.columns,
                         rows |-> Min(HeadRows, TableLen(built.table))] >>
         /\ attempted' = Append(attempted, dataset_name)
  /\ pc' = "write"
  /\ UNCHANGED <<config_file, exc, config, i, dirs, files>>
  /\ UNCHANGED mergeVars

\* Lines 24-34 when one of them raises AttributeError: dataset_config is
\* None (line 25), or a field's type is no attribute of Faker (line 33).
\* generate has no handler, so the exception leaves it.
BuildRaises ==
  /\ pc = "build"
  /\ i <= Len(Items(config))
  /\ LET dataset_name   == Items(config)[i].name
         dataset_config == Items(config)[i].spec
     IN  /\ attempted' = Append(attempted, dataset_name)
         /\ \/ /\ IsNone(dataset_config)
               /\ UNCHANGED <<global_metadata, global_output, metadata_config,
                              output_config, num_rows>>
            \/ /\ ~IsNone(dataset_config)
               /\ LET meta == MergeConfigs(global_metadata,
                                           Get(dataset_config, "metadata", EmptyDict))
                      out  == MergeConfigs(global_output,
                                           Get(dataset_config, "output", EmptyDict))
                  IN  /\ ~BuildTable(dataset_config, meta.merged_config).ok
                      /\ num_rows' = Get(dataset_config, "rows", DefaultRows)
                      /\ global_metadata' = meta.global_config
                      /\ global_output' = out.global_config
                      /\ metadata_config' = meta.merged_config
                      /\ output_config' = out.merged_config
  /\ pc' = "raised"
  /\ exc' = "AttributeError"
  /\ UNCHANGED <<config_file, config, i, df, meta_assigned, dirs, files, log>>
  /\ UNCHANGED mergeVars

\* Lines 47-58 for the table just built, then on to the next item.
WriteDataset ==
  /\ pc = "write"
  /\ LET dataset_name     == Items(config)[i].name
         output_directory == OutputDirectory(output_config)
         output_format    == OutputFormat(output_config)
         output_file      == OutputFile(dataset_name, output_config)
         mode             == WriteMode(output_format)
     IN  /\ dirs' = dirs \cup {output_directory}
         /\ \/ /\ mode = "csv"
               /\ files' = {f \in files : f.path # output_file} \cup
                    {[path |-> output_file, by |-> dataset_name,
                      content |-> ToCsv(df, ",")]}
               /\ log' = log
            \/ /\ mode = "tsv"
               /\ files' = {f \in files : f.path # output_file} \cup
                    {[path |-> output_file, by |-> dataset_name,
                      content |-> ToCsv(df, "TAB")]}
               /\ log' = log
            \/ /\ mode = "unsupported"
               /\ files' = files
               /\ log' = Append(log, [msg |-> "unsupported", format |-> output_format])
  /\ i' = i + 1
  /\ pc' = "build"
  /\ UNCHANGED <<config_file, exc, config, global_metadata, global_output,
                 num_rows, metadata_config, output_config, df, meta_assigned,
                 attempted>>
  /\ UNCHANGED mergeVars

\* The items are exhausted: generate returns.
Return ==
  /\ pc = "build"
  /\ i > Len(Items(config))
  /\ pc' = "done"
  /\ UNCHANGED <<config_file, exc, config, global_metadata, global_output, i,
                 num_rows, metadata_config, output_config, df, meta_assigned,
                 attempted, dirs, files, log>>
  /\ UNCHANGED mergeVars

----------------------------------------------------------------------------
(* The run of the program: construct, then generate once.                  *)

MergeIdle ==
  /\ mpc = "idle"
  /\ m_args = [global_config |-> EmptyDict, dataset_config |-> EmptyDict]
  /\ m_after = MergeConfigs(EmptyDict, EmptyDict)

Init ==
  /\ config_file \in ConfigFiles
  /\ pc = "new"
  /\ exc = "none"
  /\ config = NoneValue
  /\ global_metadata = NoneValue
  /\ global_output = NoneValue
  /\ i = 0
  /\ num_rows = 0
  /\ metadata_config = EmptyDict
  /\ output_config = EmptyDict
  /\ df = EmptyTable
  /\ meta_assigned = <<>>
  /\ attempted = <<>>
  /\ dirs = {}
  /\ files = {}
  /\ log = <<>>
  /\ MergeIdle

Next ==
  \/ Construct
  \/ ConstructFails
  \/ Generate
  \/ BuildDataset
  \/ BuildRaises
  \/ WriteDataset
  \/ Return

Spec == Init /\ [][Next]_vars

----------------------------------------------------------------------------
(* _merge_configs on its own, over every pair of small dicts.              *)

MergeKeys == {"a", "b", "x"}

MergeValues == {1, 2, 9}

MergeDicts == UNION {[keys -> MergeValues] : keys \in SUBSET MergeKeys}

GenerateIdle ==
  /\ config_file = [exists |-> FALSE, doc |-> NoneValue]
  /\ pc = "idle"
  /\ exc = "none"
  /\ config = NoneValue
  /\ global_metadata = NoneValue
  /\ global_output = NoneValue
  /\ i = 0
  /\ num_rows = 0
  /\ metadata_config = EmptyDict
  /\ output_config = EmptyDict
  /\ df = EmptyTable
  /\ meta_assigned = <<>>
  /\ attempted = <<>>
  /\ dirs = {}
  /\ files = {}
  /\ log = <<>>

MergeInit ==
  /\ GenerateIdle
  /\ mpc = "call"
  /\ m_args \in [global_config : MergeDicts, dataset_config : MergeDicts]
  /\ m_after = MergeConfigs(EmptyDict, EmptyDict)

MergeCall ==
  /\ mpc = "call"
  /\ m_after' = MergeConfigs(m_args.global_config, m_args.dataset_config)
  /\ mpc' = "returned"
  /\ UNCHANGED m_args
  /\ UNCHANGED genVars

MergeNext == MergeCall

MergeSpec == MergeInit /\ [][MergeNext]_vars

----------------------------------------------------------------------------
(* What the configuration file declares, read off the file itself. The     *)
(* properties below are stated against these, not against generate's       *)
(* locals.                                                                 *)

Document == IF config_file.exists THEN config_file.doc ELSE EmptyDict

DeclaredItems == Get(Document, "datasets", <<>>)

NameOf(k) == DeclaredItems[k].name

SpecOf(k) == DeclaredItems[k].spec

DeclaredFields(k) == Get(SpecOf(k), "fields", <<>>)

DeclaredNames(k) == [n \in 1..Len(DeclaredFields(k)) |-> DeclaredFields(k)[n]["name"]]

GlobalSection(section) == Get(Get(Document, "global", EmptyDict), section, EmptyDict)

LocalSection(k, section) == Get(SpecOf(k), section, EmptyDict)

\* The effective value of one key: the dataset's own, else the global one,
\* else the default.
Effective(k, section, key, default) ==
  IF key \in DOMAIN LocalSection(k, section) THEN LocalSection(k, section)[key]
  ELSE IF key \in DOMAIN GlobalSection(section) THEN GlobalSection(section)[key]
  ELSE default

HasUnknownType(k) ==
  \E n \in 1..Len(DeclaredFields(k)) : DeclaredFields(k)[n]["type"] \notin FakerMethods

Buildable(k) == ~IsNone(SpecOf(k)) /\ ~HasUnknownType(k)

Supported(k) == Effective(k, "output", "format", "csv") \in {"csv", "tsv"}

ResolvedRows(k) == IF "rows" \in DOMAIN SpecOf(k) THEN SpecOf(k)["rows"] ELSE DefaultRows

Recognized == {"created_at", "modified_at", "created_by", "modified_by"}

RequestedMetadata(k) ==
  SelectSeq(Effective(k, "metadata", "fields", <<>>), LAMBDA m : m \in Recognized)

\* generate is running or has ended.
InGenerate == pc \in {"build", "write", "done", "raised"}

\* The loop body for the dataset at position k has run to its end.
Completed(k) == InGenerate /\ k < i

FilesBy(k) == {f \in files : f.by = NameOf(k)}

----------------------------------------------------------------------------
(* C1. Unknown generator isolation: when a dataset declares a field whose  *)
(* type has no generator, every other dataset, before or after it, is      *)
(* still built and written once generate has ended.                        *)
C1_UnknownGeneratorIsolation ==
  (pc \in {"done", "raised"}) =>
    \A k \in 1..Len(DeclaredItems) :
      HasUnknownType(k) =>
        \A j \in 1..Len(DeclaredItems) \ {k} :
          (Buildable(j) /\ Supported(j)) =>
            \E f \in FilesBy(j) :
              f.content.header # <<>> => Len(f.content.rows) = ResolvedRows(j)

(* C2. When generate has ended, every dataset of the mapping has been      *)
(* attempted exactly once, in declaration order, whatever failed earlier.  *)
C2_AllAttemptedOnceInOrder ==
  (pc \in {"done", "raised"}) =>
    attempted = [k \in 1..Len(DeclaredItems) |-> NameOf(k)]

(* C3. Row count: for a dataset whose rows is a positive integer or is     *)
(* unspecified (then 100), every column of the built table, declared or    *)
(* metadata, has exactly that many elements.                               *)
C3_RowCount ==
  (pc = "write" /\ ResolvedRows(i) > 0) =>
    /\ DOMAIN df.data = SeqRange(df.columns)
    /\ \A c \in SeqRange(df.columns) : Len(df.data[c]) = ResolvedRows(i)
    /\ "rows" \notin DOMAIN SpecOf(i) => num_rows = 100

C3_Witness ==
  /\ pc = "write"
  /\ "rows" \notin DOMAIN SpecOf(i)
  /\ meta_assigned # <<>>
  /\ Len(df.columns) >= 3
  /\ \A c \in SeqRange(df.columns) : Len(df.data[c]) = 100

(* C4. Merge precedence: the merge of g and l has the keys of g and of l,  *)
(* and maps each key to l's value if l has it, else to g's; merging an     *)
(* empty l gives g, merging into an empty g gives l.                       *)
C4_MergePrecedence ==
  (mpc = "returned") =>
    LET g == m_args.global_config
        l == m_args.dataset_config
        merged == m_after.merged_config
    IN  /\ DOMAIN merged = DOMAIN g \cup DOMAIN l
        /\ \A k \in DOMAIN merged :
             merged[k] = IF k \in DOMAIN l THEN l[k] ELSE g[k]
        /\ l = EmptyDict => merged = g
        /\ g = EmptyDict => merged = l

C4_Witness ==
  /\ mpc = "returned"
  /\ m_args = [global_config |-> [a |-> 1, b |-> 2], dataset_config |-> [b |-> 9]]
  /\ m_after.merged_config = [a |-> 1, b |-> 9]

(* C5. Merging is pure: once constructed, the stored global metadata and   *)
(* output configs stay what the file's global section says, through every  *)
(* dataset; and each dataset's effective configs are made of the global    *)
(* section and that dataset's own override only.                           *)
C5_MergePure ==
  /\ (pc \in {"constructed", "build", "write", "done", "raised"}) =>
       /\ global_metadata = GlobalSection("metadata")
       /\ global_output = GlobalSection("output")
  /\ (pc = "write") =>
       /\ DOMAIN metadata_config =
            DOMAIN GlobalSection("metadata") \cup DOMAIN LocalSection(i, "metadata")
       /\ \A key \in DOMAIN metadata_config :
            metadata_config[key] = Effective(i, "metadata", key, FALSE)
       /\ DOMAIN output_config =
            DOMAIN GlobalSection("output") \cup DOMAIN LocalSection(i, "output")
       /\ \A key \in DOMAIN output_config :
            output_config[key] = Effective(i, "output", key, "")

C5_Witness ==
  /\ pc = "write"
  /\ i = 2
  /\ LocalSection(1, "metadata") = [enable |-> FALSE]
  /\ LocalSection(1, "output") = [format |-> "json"]
  /\ LocalSection(2, "metadata") = EmptyDict
  /\ LocalSection(2, "output") = EmptyDict
  /\ global_metadata = [enable |-> TRUE, fields |-> <<"created_at", "created_by">>]
  /\ metadata_config = global_metadata
  /\ output_config = [directory |-> <<"data">>, format |-> "tsv"]

(* C6. Metadata gating: a requested, recognized metadata column is put in  *)
(* the built table if and only if the effective metadata.enable (the       *)
(* dataset's own value, else the global one, else false) is true; with     *)
(* enable false the table holds the declared fields only.                  *)
C6_MetadataGating ==
  (pc = "write") =>
    LET enabled == Effective(i, "metadata", "enable", FALSE)
        requested == SeqRange(RequestedMetadata(i))
    IN  /\ \A m \in requested :
             (m \in SeqRange(meta_assigned) /\ m \in SeqRange(df.columns)) <=> enabled
        /\ SeqRange(meta_assigned) \subseteq requested
        /\ ~enabled =>
             /\ meta_assigned = <<>>
             /\ df.columns = DeclaredNames(i)
             /\ \A n \in 1..Len(DeclaredFields(i)) :
                  \A r \in 1..Len(df.data[DeclaredNames(i)[n]]) :
                    df.data[DeclaredNames(i)[n]][r] = DeclaredFields(i)[n]["type"]

\* Both directions in one run: the first dataset switches off what the
\* global config enables, the second leaves it on.
C6_Witness ==
  /\ pc = "write"
  /\ i = 2
  /\ GlobalSection("metadata") = [enable |-> TRUE, fields |-> <<"created_at", "created_by">>]
  /\ LocalSection(1, "metadata") = [enable |-> FALSE]
  /\ LocalSection(2, "metadata") = EmptyDict
  /\ \E n \in 1..Len(log) :
       /\ log[n].msg = "head"
       /\ log[n].columns = DeclaredNames(1)
       /\ DeclaredNames(1) # <<>>
  /\ meta_assigned = <<"created_at", "created_by">>
  /\ "created_at" \in SeqRange(df.columns)

(* C7. Unsupported format: a dataset whose effective output format is not  *)
(* csv or tsv gets no output file; its diagnostic is printed; no exception *)
(* comes of it (generate raises only from a dataset's build); and the      *)
(* supported datasets that have run are written.                           *)
C7_UnsupportedFormat ==
  /\ \A k \in 1..Len(DeclaredItems) :
       ~Supported(k) =>
         /\ FilesBy(k) = {}
         /\ Completed(k) =>
              \E n \in 1..Len(log) :
                log[n] = [msg |-> "unsupported",
                          format |-> Effective(k, "output", "format", "csv")]
  /\ (pc = "raised") =>
       /\ attempted[Len(attempted)] = NameOf(i)
       /\ IsNone(SpecOf(i)) \/ HasUnknownType(i)
  /\ \A k \in 1..Len(DeclaredItems) :
       (Completed(k) /\ Supported(k)) => FilesBy(k) # {}

C7_Witness ==
  /\ pc = "done"
  /\ Len(DeclaredItems) = 2
  /\ Effective(1, "output", "format", "csv") = "json"
  /\ Supported(2)
  /\ FilesBy(1) = {}
  /\ FilesBy(2) # {}
  /\ \E n \in 1..Len(log) : log[n] = [msg |-> "unsupported", format |-> "json"]

(* C8, as the spec states it. Default output: a dataset spec with no       *)
(* output section is written to output/{name}.csv.                         *)
C8_DefaultOutput ==
  \A k \in 1..Len(DeclaredItems) :
    (Completed(k) /\ "output" \notin DOMAIN SpecOf(k)) =>
      \E f \in FilesBy(k) : f.path = <<"output", "/", NameOf(k), ".", "csv">>

(* C8, amended. A dataset spec with no output section is written to the    *)
(* global output config's directory and format, where a key the global     *)
(* config leaves out defaults to output/ and csv (nothing is written for a *)
(* global format other than csv and tsv); so it is output/{name}.csv when  *)
(* the global output config sets neither key.                              *)
C8_DefaultOutputAmended ==
  \A k \in 1..Len(DeclaredItems) :
    (Completed(k) /\ "output" \notin DOMAIN SpecOf(k)) =>
      LET g == GlobalSection("output")
          directory == IF "directory" \in DOMAIN g THEN g["directory"] ELSE <<"output", "/">>
          separator == IF directory[Len(directory)] = "/" THEN <<>> ELSE <<"/">>
          format == IF "format" \in DOMAIN g THEN g["format"] ELSE "csv"
          path == directory \o separator \o <<NameOf(k), ".", format>>
      IN  /\ format \in {"csv", "tsv"} => \E f \in FilesBy(k) : f.path = path
          /\ \A f \in FilesBy(k) : f.path = path
          /\ g = EmptyDict =>
               \E f \in FilesBy(k) : f.path = <<"output", "/", NameOf(k), ".", "csv">>

C8_Witness ==
  /\ Completed(1)
  /\ "output" \notin DOMAIN SpecOf(1)
  /\ GlobalSection("output") = EmptyDict
  /\ \E f \in FilesBy(1) :
       /\ f.path = <<"output", "/", "users", ".", "csv">>
       /\ f.content.sep = ","

(* C9. Column order: the built table's columns are exactly the declared    *)
(* fields in declaration order, followed by the recognized metadata names  *)
(* the effective metadata config requests (when enabled), in the order it  *)
(* lists them; unrecognized names add no column.                           *)
C9_ColumnOrder ==
  (pc = "write") =>
    df.columns =
      DeclaredNames(i) \o
        (IF Effective(i, "metadata", "enable", FALSE)
         THEN RequestedMetadata(i) ELSE <<>>)

(* C10. Missing configuration is never an error: whatever the file lacks   *)
(* (the file itself, its content, a section, a dataset's keys), neither    *)
(* the constructor nor generate fails on the absence.                      *)
C10_MissingConfigNeverAnError ==
  /\ pc # "init_raised"
  /\ (pc = "raised") => ~IsNone(SpecOf(i))
  /\ (pc = "done" /\ DeclaredItems = <<>>) => (attempted = <<>> /\ files = {})
=============================================================================
